---------------------------- MODULE Spec2Model ----------------------------
(***************************************************************************)
(* Model of the NeuralODE repository:                                      *)
(*   src/tfdiffeq_2.py                         odeint_adjoint and the      *)
(*                                             adjoint backward pass       *)
(*   src/experiments/massspringdamper/utils.py create_dataset, the energy  *)
(*                                             and phase metrics, and the  *)
(*                                             results log of visualize    *)
(*                                                                         *)
(* Tensors are flat sequences of integers (a scalar is a sequence of       *)
(* length one); floats of the metric code are exact rationals extended     *)
(* with nan and +-inf, which is what IEEE arithmetic gives on the small    *)
(* dyadic values used here.                                                *)
(***************************************************************************)
EXTENDS Integers, Sequences, FiniteSets, TLC

VARIABLES
    arguments,  \* the module global _arguments: <<>> until first set
    built,      \* the tf.keras models whose variables have been built
    invs,       \* the gradient closures of the odeint_adjoint calls made
    fwd,        \* the last odeint_adjoint call and its outcome
    bk,         \* the backward pass (grad): its position and its locals
    en,         \* relative_energy_drift: its arguments and its result
    zc,         \* zero_crossings: the sampled signal and the indices found
    ds,         \* create_dataset: its arguments and the shapes it returned
    disk,       \* experiments/datasets/*.npy: the shape of each saved array
    fs,         \* the results logs: path -> whether it exists and what was written
    fs0,        \* the results logs as they were when the run started
    clock,      \* seconds since TIME_OF_RUN
    vlog        \* history: the arguments of the visualize calls so far

vars == <<arguments, built, invs, fwd, bk, en, zc, ds, disk, fs, fs0, clock, vlog>>

---------------------------------------------------------------------------
(* Generic helpers.                                                        *)

Abs(n) == IF n < 0 THEN -n ELSE n

RECURSIVE Gcd(_, _)
Gcd(a, b) == IF b = 0 THEN a ELSE Gcd(b, a % b)

Range(s) == {s[j] : j \in DOMAIN s}

\* All sequences over S of length exactly n.
SeqsOfLen(S, n) == [1..n -> S]

---------------------------------------------------------------------------
(* Floats: [k |-> "num", n, d] is the rational n/d in lowest terms, d > 0; *)
(* [k |-> "inf", n |-> +-1, d |-> 0] and [k |-> "nan", n |-> 0, d |-> 0].  *)

NaN == [k |-> "nan", n |-> 0, d |-> 0]

Inf(s) == [k |-> "inf", n |-> s, d |-> 0]

Sgn(n) == IF n > 0 THEN 1 ELSE IF n < 0 THEN -1 ELSE 0

Rat(n, d) ==
    LET g == Gcd(Abs(n), Abs(d))
        s == IF d < 0 THEN -1 ELSE 1
    IN  [k |-> "num", n |-> (s * n) \div g, d |-> (s * d) \div g]

Flt(n) == Rat(n, 1)

FSign(a) == IF a.k = "nan" THEN 0 ELSE Sgn(a.n)

\* a * b in IEEE arithmetic (0 * inf = nan).
FMul(a, b) ==
    IF a.k = "nan" \/ b.k = "nan" THEN NaN
    ELSE IF a.k = "inf" \/ b.k = "inf"
         THEN IF FSign(a) * FSign(b) = 0 THEN NaN ELSE Inf(FSign(a) * FSign(b))
         ELSE Rat(a.n * b.n, a.d * b.d)

\* a + b in IEEE arithmetic (inf + -inf = nan).
FAdd(a, b) ==
    IF a.k = "nan" \/ b.k = "nan" THEN NaN
    ELSE IF a.k = "inf" /\ b.k = "inf"
         THEN IF a.n = b.n THEN a ELSE NaN
         ELSE IF a.k = "inf" THEN a
         ELSE IF b.k = "inf" THEN b
         ELSE Rat(a.n * b.d + b.n * a.d, a.d * b.d)

FNeg(a) == IF a.k = "nan" THEN NaN ELSE [a EXCEPT !.n = -a.n]

FSub(a, b) == FAdd(a, FNeg(b))

\* a / b as numpy divides float64 values: 0/0 = nan, x/0 = +-inf, x/inf = 0.
FDiv(a, b) ==
    IF a.k = "nan" \/ b.k = "nan" THEN NaN
    ELSE IF a.k = "inf"
         THEN IF b.k = "inf" THEN NaN
              ELSE Inf(a.n * (IF b.n < 0 THEN -1 ELSE 1))
         ELSE IF b.k = "inf" THEN Flt(0)
         ELSE IF b.n = 0
              THEN IF a.n = 0 THEN NaN ELSE Inf(Sgn(a.n))
              ELSE Rat(a.n * b.d, a.d * b.n)

IsFinite(a) == a.k = "num"

---------------------------------------------------------------------------
(* utils.py: total_energy, relative_energy_drift.                          *)

\* Bound: number of samples of a trajectory handed to relative_energy_drift.
MaxTrajLen == 2

\* The position and velocity values a state is drawn from.
PosVals == {Flt(0), Flt(1), Inf(1)}

VelVals == {Flt(0), Flt(-2)}

States == {<<p, v>> : p \in PosVals, v \in VelVals}

Trajectories == UNION {SeqsOfLen(States, len) : len \in 1..MaxTrajLen}

\* 0.5 as a float.
Half == Rat(1, 2)

\* total_energy(state, k=1, m=1) for a rank-1 state (position, velocity).
total_energy(state, k, m) ==
    FAdd(FMul(FMul(FMul(Half, Flt(k)), state[1]), state[1]),
         FMul(FMul(FMul(Half, Flt(m)), state[2]), state[2]))

\* Python's x[t] for t in -len(x) .. len(x)-1 (a negative t counts from the end).
PyIndex(x, t) == IF t < 0 THEN x[Len(x) + t + 1] ELSE x[t + 1]

PyIndices(x) == (0 - Len(x)) .. (Len(x) - 1)

\* relative_energy_drift with the reference energy read at the first sample
\* instead of at index t.
relative_energy_drift_M(x_pred, x_true, t) ==
    LET energy_pred == total_energy(PyIndex(x_pred, t), 1, 1)
        energy_true == total_energy(PyIndex(x_true, 0), 1, 1)
    IN  FDiv(FSub(energy_pred, energy_true), energy_true)

relative_energy_drift(x_pred, x_true, t) ==
    LET energy_pred == total_energy(PyIndex(x_pred, t), 1, 1)
        energy_true == total_energy(PyIndex(x_true, t), 1, 1)
    IN  FDiv(FSub(energy_pred, energy_true), energy_true)

EnIdle == [pc |-> "idle", x_pred |-> <<>>, x_true |-> <<>>, t |-> 0, drift |-> NaN]

\* One call relative_energy_drift(x_pred, x_true, t).
EnergyDrift ==
    /\ en.pc # "called"
    /\ \E x_pred \in Trajectories, x_true \in Trajectories :
         /\ Len(x_pred) = Len(x_true)
         /\ \E t \in PyIndices(x_true) :
              en' = [pc |-> "called", x_pred |-> x_pred, x_true |-> x_true, t |-> t,
                     drift |-> relative_energy_drift(x_pred, x_true, t)]
    /\ UNCHANGED <<arguments, built, invs, fwd, bk, zc, ds, disk, fs, fs0, clock, vlog>>

\* The caller drops the result.
EnergyForget ==
    /\ en.pc = "called"
    /\ en' = EnIdle
    /\ UNCHANGED <<arguments, built, invs, fwd, bk, zc, ds, disk, fs, fs0, clock, vlog>>

---------------------------------------------------------------------------
(* utils.py: zero_crossings.                                               *)

\* Half period of the sampled sinusoid, in ticks of the fine time lattice.
HalfPeriod == 4

\* Bounds: the sampling step (in ticks) and the number of samples.
MaxStep == 2

MaxSamples == 9

\* A sinusoid of period 2*HalfPeriod on the integer lattice: zero exactly at
\* the multiples of HalfPeriod, positive on the first half period, negative on
\* the second (the parabola arcs r*(H-r) have the sign pattern of sin).
Sinusoid(tau) ==
    LET r == tau % (2 * HalfPeriod)
    IN  IF r <= HalfPeriod THEN r * (HalfPeriod - r)
        ELSE 0 - (r - HalfPeriod) * (2 * HalfPeriod - r)

\* The time of sample j (0-based) and the sampled signal.
SampleTime(phase, step, j) == phase + j * step

Sampled(phase, step, n) == [j \in 1..n |-> Sinusoid(SampleTime(phase, step, j - 1))]

\* np.sign, np.diff.
np_sign(x) == [j \in DOMAIN x |-> Sgn(x[j])]

np_diff(x) == [j \in 1..(Len(x) - 1) |-> x[j + 1] - x[j]]

\* np.where(a)[0]: the 0-based indices of the nonzero entries, increasing.
RECURSIVE np_where(_, _)
np_where(a, j) ==
    IF j > Len(a) THEN <<>>
    ELSE (IF a[j] # 0 THEN <<j - 1>> ELSE <<>>) \o np_where(a, j + 1)

zero_crossings(x) == np_where(np_diff(np_sign(x)), 1)

ZcIdle == [pc |-> "idle", phase |-> 0, step |-> 1, n |-> 0, x |-> <<>>, found |-> <<>>]

\* One call zero_crossings(x) on a densely sampled sinusoid.
ZeroCrossings ==
    /\ zc.pc # "called"
    /\ \E phase \in 0..(2 * HalfPeriod - 1), step \in 1..MaxStep, n \in 2..MaxSamples :
         LET x == Sampled(phase, step, n)
         IN  zc' = [pc |-> "called", phase |-> phase, step |-> step, n |-> n, x |-> x,
                    found |-> zero_crossings(x)]
    /\ UNCHANGED <<arguments, built, invs, fwd, bk, en, ds, disk, fs, fs0, clock, vlog>>

ZcForget ==
    /\ zc.pc = "called"
    /\ zc' = ZcIdle
    /\ UNCHANGED <<arguments, built, invs, fwd, bk, en, ds, disk, fs, fs0, clock, vlog>>

---------------------------------------------------------------------------
(* utils.py: create_dataset.  Arrays are modelled by their shapes.         *)

\* Bounds: n_series and samples_per_series of a create_dataset call.
MaxSeries == 5

MaxSeriesLen == 5

\* MassSpringDamper.step(dt, n_steps): a trajectory of n_steps states.
msd_step(n_steps) == <<n_steps, 2>>

\* MassSpringDamper.call(t, x): the derivative, shaped like the states given.
msd_call(x_shape) == x_shape

\* np.array(list of equally shaped arrays): one more leading axis.
np_array(shapes) == <<Len(shapes)>> \o shapes[1]

\* np.stack(list) raises ValueError on an empty list.
np_stack_raises(shapes) == Len(shapes) = 0

np_stack(shapes) == <<Len(shapes)>> \o shapes[1]

\* The lists x_train and y_train after the loop of lines 70-74.
RECURSIVE train_lists(_, _)
train_lists(n_series, samples_per_series) ==
    IF n_series = 0 THEN [x |-> <<>>, y |-> <<>>]
    ELSE LET rest == train_lists(n_series - 1, samples_per_series)
             x_i  == msd_step(samples_per_series)
             y_i  == msd_call(x_i)
         IN  [x |-> Append(rest.x, x_i), y |-> Append(rest.y, y_i)]

\* The lists x_val and y_val of lines 78-87: each target is wrapped in a
\* one-element list before np.array.
val_lists(samples_per_series) ==
    LET x_1 == msd_step(samples_per_series)
        y_1 == np_array(<<msd_call(x_1)>>)
        x_2 == msd_step(samples_per_series)
        y_2 == np_array(<<msd_call(x_2)>>)
    IN  [x |-> <<x_1, x_2>>, y |-> <<y_1, y_2>>]

DatasetFiles == {"x_train", "y_train", "x_val", "y_val"}

NoShape == <<>>

DsIdle == [pc |-> "idle", n_series |-> 0, samples |-> 0,
           x_train |-> NoShape, y_train |-> NoShape, x_val |-> NoShape, y_val |-> NoShape]

\* create_dataset(n_series, samples_per_series, save_to_disk).
CreateDataset ==
    /\ \E n_series \in 0..MaxSeries, samples_per_series \in 1..MaxSeriesLen,
          save_to_disk \in BOOLEAN :
         LET train == train_lists(n_series, samples_per_series)
             val   == val_lists(samples_per_series)
         IN  IF np_stack_raises(train.x)
             THEN /\ ds' = [DsIdle EXCEPT !.pc = "raised", !.n_series = n_series,
                                          !.samples = samples_per_series]
                  /\ disk' = disk
             ELSE /\ ds' = [pc |-> "returned", n_series |-> n_series,
                            samples |-> samples_per_series,
                            x_train |-> np_stack(train.x), y_train |-> np_stack(train.y),
                            x_val |-> np_stack(val.x), y_val |-> np_stack(val.y)]
                  /\ disk' = IF save_to_disk
                             THEN [f \in DatasetFiles |-> ds'[f]]
                             ELSE disk
    /\ UNCHANGED <<arguments, built, invs, fwd, bk, en, zc, fs, fs0, clock, vlog>>

---------------------------------------------------------------------------
(* utils.py: visualize, lines 295-312: the results log.  A string is a     *)
(* sequence of tokens (words, ",", " ", "\n"); a file is the sequence of   *)
(* the strings written to it.                                              *)

\* Bounds: the visualize calls of a run, the epoch argument, the clock.
MaxVisualize == 3

MaxEpoch == 0

MaxClock == 1

\* str(x) of a float64: nan, inf, -inf, or a decimal with at least one digit
\* after the point (wholes and halves are all the model uses).
FloatStr(a) ==
    IF a.k = "nan" THEN "nan"
    ELSE IF a.k = "inf" THEN (IF a.n < 0 THEN "-inf" ELSE "inf")
    ELSE LET whole == Abs(a.n) \div a.d
             frac  == IF a.d = 1 THEN "0" ELSE "5"
         IN  (IF a.n < 0 THEN "-" ELSE "") \o ToString(whole) \o "." \o frac

\* str(n) of an int.
IntStr(n) == ToString(n)

\* fmt.format(*args): each "{}" of fmt, in order, replaced by str of the next
\* argument (args are already the strings).
RECURSIVE Format(_, _)
Format(fmt, args) ==
    IF fmt = <<>> THEN <<>>
    ELSE IF Head(fmt) = "{}"
         THEN <<Head(args)>> \o Format(Tail(fmt), Tail(args))
         ELSE <<Head(fmt)>> \o Format(Tail(fmt), args)

\* "{},{},{},{},{},{},{},{}\n"
row_format == <<"{}", ",", "{}", ",", "{}", ",", "{}", ",", "{}", ",", "{}", ",", "{}", ",",
                "{}", "\n">>

\* ("wall_time,epoch,energy_drift_interp,energy_drift_extrap, phase_error_interp,"
\*  + "phase_error_extrap, traj_err_interp, traj_err_extrap\n")
title_string ==
    <<"wall_time", ",", "epoch", ",", "energy_drift_interp", ",", "energy_drift_extrap", ",",
      " ", "phase_error_interp", ",">>
    \o <<"phase_error_extrap", ",", " ", "traj_err_interp", ",", " ", "traj_err_extrap", "\n">>

\* The metrics of one evaluation (lines 286-292), as visualize names them.
MetricRows ==
    { [energy_drift_interp |-> Flt(0), energy_drift_extrap |-> Flt(0),
       phase_error_interp |-> Flt(0), phase_error_extrap |-> Flt(0),
       traj_error_interp |-> Flt(0), traj_error_extrap |-> Flt(0)],
      [energy_drift_interp |-> NaN, energy_drift_extrap |-> Rat(-1, 2),
       phase_error_interp |-> Inf(1), phase_error_extrap |-> Inf(-1),
       traj_error_interp |-> Rat(3, 2), traj_error_extrap |-> Flt(2)] }

\* string = "...".format(wall_time, epoch, energy_drift_interp, ...), lines 297-300.
row_string(wall_time, epoch, m) ==
    Format(row_format,
           <<FloatStr(wall_time), IntStr(epoch),
             FloatStr(m.energy_drift_interp), FloatStr(m.energy_drift_extrap),
             FloatStr(m.phase_error_interp), FloatStr(m.phase_error_extrap),
             FloatStr(m.traj_error_interp), FloatStr(m.traj_error_extrap)>>)

\* The hyperparameters of the main script (args.lr, args.dataset_size,
\* args.batch_size) and the run's directory and start time.
ArgSets ==
    { [lr |-> Rat(1, 2), dataset_size |-> 1, batch_size |-> 11],
      [lr |-> Rat(1, 2), dataset_size |-> 11, batch_size |-> 1],
      [lr |-> Rat(1, 2), dataset_size |-> 1, batch_size |-> 1] }

PLOT_DIR == "plots"

TIME_OF_RUN == "20200101-000000"

\* file_path, lines 301-303.
file_path(args) ==
    PLOT_DIR \o TIME_OF_RUN \o "results"
    \o FloatStr(args.lr) \o IntStr(args.dataset_size) \o IntStr(args.batch_size)
    \o ".csv"

Paths == {file_path(a) : a \in ArgSets}

NoFile == [exists |-> FALSE, chunks |-> <<>>]

\* os.path.isfile(path).
isfile(files, path) == files[path].exists

\* fd = open(path, 'a'); fd.write(text); fd.close(): the file is created when
\* absent, and the text goes to its end.
append_to(files, path, text) ==
    [files EXCEPT ![path] = [exists |-> TRUE, chunks |-> Append(@.chunks, text)]]

\* Lines 304-312 with the header written on every call.
write_log_M(files, path, string) ==
    append_to(append_to(files, path, title_string), path, string)

\* Lines 304-312: the header when the file is absent, then the row.
write_log(files, path, string) ==
    LET with_title == IF ~isfile(files, path)
                      THEN append_to(files, path, title_string)
                      ELSE files
    IN  append_to(with_title, path, string)

\* A log left by an earlier run of the same script: its header and a row.
PriorLog ==
    [exists |-> TRUE,
     chunks |-> <<title_string,
                  row_string(Flt(3), 0, CHOOSE m \in MetricRows : m.energy_drift_interp = NaN)>>]

\* One visualize call, as far as the results log goes (lines 295-312).
Visualize ==
    /\ Len(vlog) < MaxVisualize
    /\ \E args \in ArgSets, epoch \in 0..MaxEpoch, m \in MetricRows,
          now \in clock..(IF clock < MaxClock THEN clock + 1 ELSE clock) :
         LET call == [path |-> file_path(args), wall_time |-> Flt(now), epoch |-> epoch,
                      metrics |-> m]
         IN  /\ clock' = now
             /\ fs' = write_log(fs, call.path, row_string(call.wall_time, epoch, m))
             /\ vlog' = Append(vlog, call)
    /\ UNCHANGED <<arguments, built, invs, fwd, bk, en, zc, ds, disk, fs0>>

---------------------------------------------------------------------------
(* tfdiffeq_2.py: tensors, the dynamics functions, the solver.             *)

\* Bounds: live forward invocations (gradient closures) and time points.
MaxCalls == 2

MaxT == 3

\* Tensor arithmetic on flat tensors of equal size.
VAdd(a, b) == [j \in DOMAIN a |-> a[j] + b[j]]

VScale(h, a) == [j \in DOMAIN a |-> h * a[j]]

VNeg(a) == VScale(-1, a)

Zeros(n) == [j \in 1..n |-> 0]

RECURSIVE VSum(_)
VSum(a) == IF a = <<>> THEN 0 ELSE Head(a) + VSum(Tail(a))

\* tf.matmul(tf.reshape(a, [1, -1]), tf.reshape(b, [-1, 1])).
Dot(a, b) == VSum([j \in DOMAIN a |-> a[j] * b[j]])

\* _flatten(sequence of tensors): their concatenation.
RECURSIVE Flatten(_)
Flatten(ts) == IF ts = <<>> THEN <<>> ELSE Head(ts) \o Flatten(Tail(ts))

\* Componentwise operations on tuples of tensors.
TupAdd(a, b) == [j \in DOMAIN a |-> VAdd(a[j], b[j])]

TupScale(h, a) == [j \in DOMAIN a |-> VScale(h, a[j])]

\* The dynamics functions handed to odeint_adjoint.  ODE is the class of
\* lines 207-213: its constructor takes no argument, it owns no variable, and
\* its call reads self.parameters, which no ODE has.  modelFunc is the
\* wrapper of utils.py (lines 20-30) around a linear layer with kernel a and
\* bias b, x * a + b; Lambda is the reference field of utils.py (no trainable
\* variable); Pair is a model on a 2-tuple state, (y2 * c, t - y1), with one
\* variable c; a plain function is no tf.keras.Model.
ODE == [cls |-> "ODE", vars |-> <<>>]

modelFunc(a, b) == [cls |-> "modelFunc", vars |-> <<<<a>>, <<b>>>>]

LambdaModel == [cls |-> "Lambda", vars |-> <<>>]

PairModel(c) == [cls |-> "Pair", vars |-> <<<<c>>>>]

PlainFunction == [cls |-> "function", vars |-> <<>>]

\* isinstance(func, tf.keras.Model), line 177.
IsKerasModel(f) == f.cls # "function"

\* func(t, y) of a model on a single tensor y: [ok, err, out]; ok is FALSE
\* when the call raises.  ODE.call raises AttributeError at line 213; Lambda
\* indexes y[:, 1], so it needs a state of two entries.
BaseCall(f, t, y) ==
    IF f.cls = "ODE"
    THEN [ok |-> FALSE, err |-> "AttributeError", out |-> <<>>]
    ELSE IF f.cls = "modelFunc"
    THEN [ok |-> TRUE, err |-> "none",
          out |-> [j \in DOMAIN y |-> y[j] * f.vars[1][1] + f.vars[2][1]]]
    ELSE IF f.cls = "Lambda"
    THEN IF Len(y) = 2 THEN [ok |-> TRUE, err |-> "none", out |-> <<y[2], 0 - y[1]>>]
         ELSE [ok |-> FALSE, err |-> "InvalidArgumentError", out |-> <<>>]
    ELSE [ok |-> TRUE, err |-> "none", out |-> VNeg(y)]

\* TupleFunc(base_func), lines 182-188: call(t, y) = (base_func(t, y[0]),).
TupleFunc(f) == [wrapped |-> TRUE, base |-> f]

Unwrapped(f) == [wrapped |-> FALSE, base |-> f]

\* func(t, y) for the func odeint and grad hold and a tuple y: [ok, out], out
\* a tuple of tensors.  Pair reads y[0] and y[1] and raises on a 1-tuple.
Call(func, t, y) ==
    IF func.wrapped
    THEN LET r == BaseCall(func.base, t, y[1])
         IN  [ok |-> r.ok, err |-> r.err, out |-> <<r.out>>]
    ELSE IF Len(y) < 2 THEN [ok |-> FALSE, err |-> "IndexError", out |-> <<>>]
         ELSE [ok |-> TRUE, err |-> "none",
               out |-> <<VScale(func.base.vars[1][1], y[2]),
                         [j \in DOMAIN y[1] |-> t - y[1][j]]>>]

\* tape.gradient(func_eval, (t,) + y + f_params, output_gradients=gradys),
\* lines 76-90, with None replaced by zeros: [t, y, params].  f_params are the
\* variables the forward pass watched; the gradient with respect to a
\* variable func does not read is None.
VJP(func, t, y, gradys, f_params) ==
    LET own == f_params = func.base.vars
        none == Zeros(Len(Flatten(f_params)))
    IN  IF func.wrapped
        THEN IF func.base.cls = "modelFunc"
             THEN [t |-> <<0>>,
                   y |-> <<VScale(func.base.vars[1][1], gradys[1])>>,
                   params |-> IF own THEN <<Dot(gradys[1], y[1]), VSum(gradys[1])>> ELSE none]
             ELSE IF func.base.cls = "Lambda"
             THEN [t |-> <<0>>,
                   y |-> <<<<0 - gradys[1][2], gradys[1][1]>>>>,
                   params |-> none]
             ELSE [t |-> <<0>>, y |-> <<VNeg(gradys[1])>>, params |-> none]
        ELSE [t |-> <<VSum(gradys[2])>>,
              y |-> <<VNeg(gradys[2]), VScale(func.base.vars[1][1], gradys[1])>>,
              params |-> IF own THEN <<Dot(gradys[1], y[2])>> ELSE none]

\* augmented_dynamics(t, y_aug), lines 61-96: [ok, out].  It raises when func
\* raises, when func returns another number of tensors than the state has
\* (gradys and func_eval then differ in shape), and at line 93 when there is
\* no trainable variable.
augmented_dynamics(func, f_params, n_tensors, t, y_aug) ==
    LET y     == SubSeq(y_aug, 1, n_tensors)
        adj_y == SubSeq(y_aug, n_tensors + 1, 2 * n_tensors)
        func_eval == Call(func, t, y)
        gradys == [j \in DOMAIN adj_y |-> VNeg(adj_y[j])]
        vjp   == VJP(func, t, y, gradys, f_params)
    IN  IF ~func_eval.ok \/ Len(func_eval.out) # n_tensors \/ Len(f_params) = 0
        THEN [ok |-> FALSE, out |-> <<>>]
        ELSE [ok |-> TRUE, out |-> func_eval.out \o vjp.y \o <<vjp.t, vjp.params>>]

\* What the solver is given to integrate: func itself (line 42), or the
\* augmented_dynamics closure of a backward pass (line 141).
FuncOf(func) == [aug |-> FALSE, func |-> func, f_params |-> <<>>, n_tensors |-> 0]

AugmentedOf(func, f_params, n_tensors) ==
    [aug |-> TRUE, func |-> func, f_params |-> f_params, n_tensors |-> n_tensors]

\* f(t, y) as the solver calls it.
Dynamics(f, t, y) ==
    IF f.aug THEN augmented_dynamics(f.func, f.f_params, f.n_tensors, t, y)
    ELSE Call(f.func, t, y)

\* odeint(f, y0, t, method='euler'): the fixed-grid Euler solver takes one
\* step per interval of t (forward or backward in time) and returns the state
\* at every time point.  f is FuncOf(func) or AugmentedOf(...), evaluated by
\* Dynamics as [ok, out]; the result is [ok, ys].
RECURSIVE EulerFrom(_, _, _, _)
EulerFrom(f, y, t, j) ==
    IF j >= Len(t) THEN [ok |-> TRUE, ys |-> <<y>>]
    ELSE LET dy == Dynamics(f, t[j], y)
         IN  IF ~dy.ok THEN [ok |-> FALSE, ys |-> <<>>]
             ELSE LET rest == EulerFrom(f, TupAdd(y, TupScale(t[j + 1] - t[j], dy.out)), t, j + 1)
                  IN  [ok |-> rest.ok, ys |-> IF rest.ok THEN <<y>> \o rest.ys ELSE <<>>]

odeint(f, y0, t) == EulerFrom(f, y0, t, 1)

\* t = tf.linspace(...): T increasing time points.
TimeGrid(T) == [j \in 1..T |-> j - 1]

\* The solver's result per component, as odeint returns it: ans[c][k] is
\* component c at time point k.
Stacked(ys) == [c \in DOMAIN ys[1] |-> [k \in DOMAIN ys |-> ys[k][c]]]

\* tuple(ans_[i] for ans_ in ans), i a 0-based index.
AtTime(ans, i) == [c \in DOMAIN ans |-> ans[c][i + 1]]

---------------------------------------------------------------------------
(* tfdiffeq_2.py: odeint_adjoint and OdeintAdjointMethod (forward).        *)

\* _Arguments(func, method, options, rtol, atol), lines 13-20.
Arguments(func, method, options, rtol, atol) ==
    [func |-> func, method |-> method, options |-> options, rtol |-> rtol, atol |-> atol]

\* The calls of odeint_adjoint the model makes: func, y0 and the solver
\* settings.  y0 is a tensor, or a tuple of tensors for Pair.
CallInputs ==
    { [func |-> modelFunc(1, 1), tensor |-> TRUE, y0 |-> <<<<1>>>>,
       method |-> "euler", options |-> "None", rtol |-> "1e-6", atol |-> "1e-12"],
      [func |-> modelFunc(2, 0), tensor |-> TRUE, y0 |-> <<<<1>>>>,
       method |-> "euler", options |-> "None", rtol |-> "1e-3", atol |-> "1e-6"],
      [func |-> LambdaModel, tensor |-> TRUE, y0 |-> <<<<1, 0>>>>,
       method |-> "euler", options |-> "None", rtol |-> "1e-6", atol |-> "1e-12"],
      [func |-> PairModel(2), tensor |-> FALSE, y0 |-> <<<<1>>, <<2>>>>,
       method |-> "euler", options |-> "None", rtol |-> "1e-6", atol |-> "1e-12"],
      [func |-> ODE, tensor |-> TRUE, y0 |-> <<<<1>>>>,
       method |-> "euler", options |-> "None", rtol |-> "1e-6", atol |-> "1e-12"],
      [func |-> PlainFunction, tensor |-> TRUE, y0 |-> <<<<1>>>>,
       method |-> "euler", options |-> "None", rtol |-> "1e-6", atol |-> "1e-12"] }

\* No odeint_adjoint call has been made since the last backward pass.
NoForward ==
    [outcome |-> "none", func |-> PlainFunction, slot_before |-> <<>>,
     func_evals |-> 0, solver_calls |-> 0, tensor_input |-> FALSE, ans |-> <<>>, ys |-> <<>>]

\* What grad returns: the gradients of y0, of t and of the variables.
NoOutput == [y0 |-> <<>>, t |-> <<>>, params |-> <<>>]

\* No backward pass has been started since the last odeint_adjoint call.
NoBackward ==
    [pc |-> "awaiting", inv |-> <<>>, args |-> <<>>, grad_output |-> <<>>, i |-> 0,
     adj_y |-> <<>>, adj_time |-> <<>>, adj_params |-> <<>>, time_vjps |-> <<>>,
     solver_ts |-> <<>>, unpacked |-> 0, out |-> NoOutput]

\* Lines 180-205 and the forward part of OdeintAdjointMethod, lines 23-42:
\* what a call with a tf.keras.Model leaves in the slot, which models are
\* built, the func evaluations and solver calls it made, the gradient closure
\* it registered and the value it returned.  TupleFunc is a new model on
\* every call, so a tensor input always takes the build call of line 196,
\* which calls func and so builds func as well (Keras marks a model built on
\* its first call, before call runs); the value of the build call is dropped,
\* an exception of func leaves odeint_adjoint there, before the slot is
\* written.  An exception of func inside the solver leaves it at line 200,
\* after the slot is written.  The variables handed to grad are those read
\* while OdeintAdjointMethod ran, that is by the solver's func evaluations:
\* none when there is a single time point.
odeint_adjoint_body(c, t, slot, built_models) ==
    LET tensor_input == c.tensor
        func  == IF tensor_input THEN TupleFunc(c.func) ELSE Unwrapped(c.func)
        is_built == ~tensor_input /\ c.func \in built_models
        build == Call(func, t[1], c.y0)
        args  == Arguments(func, c.method, c.options, c.rtol, c.atol)
        sol   == odeint(FuncOf(args.func), c.y0, t)
        ans   == Stacked(sol.ys)
        variables == IF Len(t) > 1 THEN c.func.vars ELSE <<>>
        \* type(ys) == tuple, line 202: odeint returns a tuple for the tuple y0
        \* it is given, and custom_gradient hands the structure through.
        ys_is_tuple == TRUE
    IN  IF ~is_built /\ ~build.ok
        THEN [raised |-> TRUE, error |-> build.err,
              slot |-> slot,
              built |-> built_models \cup {c.func},
              func_evals |-> 1, solver_calls |-> 0, closure |-> <<>>,
              tensor_input |-> tensor_input, ans |-> <<>>, ys |-> <<>>]
        ELSE IF ~sol.ok
        THEN [raised |-> TRUE, error |-> build.err,
              slot |-> <<args>>,
              built |-> built_models \cup {c.func},
              func_evals |-> (IF is_built THEN 0 ELSE 1) + 1, solver_calls |-> 1,
              closure |-> <<>>,
              tensor_input |-> tensor_input, ans |-> <<>>, ys |-> <<>>]
        ELSE [raised |-> FALSE, error |-> "none",
              slot |-> <<args>>,
              built |-> built_models \cup {c.func},
              func_evals |-> (IF is_built THEN 0 ELSE 1) + (Len(t) - 1),
              solver_calls |-> 1,
              closure |-> <<[args |-> args, t |-> t, ans |-> ans, variables |-> variables]>>,
              tensor_input |-> tensor_input,
              ans |-> ans,
              ys |-> IF tensor_input \/ ys_is_tuple THEN ans[1] ELSE ans]

\* odeint_adjoint with the check of line 177 made after the slot is written.
odeint_adjoint_M(c, t, slot, built_models) ==
    IF ~IsKerasModel(c.func)
    THEN [raised |-> TRUE, error |-> "ValueError",
          slot |-> <<Arguments(TupleFunc(c.func), c.method, c.options, c.rtol, c.atol)>>,
          built |-> built_models,
          func_evals |-> 0, solver_calls |-> 0, closure |-> <<>>,
          tensor_input |-> FALSE, ans |-> <<>>, ys |-> <<>>]
    ELSE odeint_adjoint_body(c, t, slot, built_models)

\* odeint_adjoint(func, y0, t, rtol, atol, method, options), lines 174-205.
odeint_adjoint(c, t, slot, built_models) ==
    IF ~IsKerasModel(c.func)
    THEN [raised |-> TRUE, error |-> "ValueError", slot |-> slot, built |-> built_models,
          func_evals |-> 0, solver_calls |-> 0, closure |-> <<>>,
          tensor_input |-> FALSE, ans |-> <<>>, ys |-> <<>>]
    ELSE odeint_adjoint_body(c, t, slot, built_models)

\* One call of odeint_adjoint.
OdeintAdjoint ==
    /\ bk.pc \in {"awaiting", "done", "raised"}
    /\ \E c \in CallInputs, T \in 1..MaxT :
         LET r == odeint_adjoint(c, TimeGrid(T), arguments, built)
         IN  /\ Cardinality(invs \cup Range(r.closure)) <= MaxCalls
             /\ arguments' = r.slot
             /\ built' = r.built
             /\ invs' = invs \cup Range(r.closure)
             /\ fwd' = [outcome |-> IF r.raised THEN r.error ELSE "returned",
                        func |-> c.func, slot_before |-> arguments,
                        func_evals |-> r.func_evals, solver_calls |-> r.solver_calls,
                        tensor_input |-> r.tensor_input, ans |-> r.ans, ys |-> r.ys]
             /\ bk' = NoBackward
    /\ UNCHANGED <<en, zc, ds, disk, fs, fs0, clock, vlog>>

---------------------------------------------------------------------------
(* tfdiffeq_2.py: grad, the backward pass (lines 45-170).                  *)

\* dLd_cur_t, lines 123-126: the sum over zip(func_i, grad_output_i).
RECURSIVE SumDots(_, _)
SumDots(func_i, grad_output_i) ==
    IF func_i = <<>> \/ grad_output_i = <<>> THEN 0
    ELSE Dot(Head(func_i), Head(grad_output_i)) + SumDots(Tail(func_i), Tail(grad_output_i))

\* tf.split(adj_params, var_flat_lens) reshaped to the variables' shapes.
RECURSIVE SplitLike(_, _)
SplitLike(flat, variables) ==
    IF variables = <<>> THEN <<>>
    ELSE <<SubSeq(flat, 1, Len(Head(variables)))>>
         \o SplitLike(SubSeq(flat, Len(Head(variables)) + 1, Len(flat)), Tail(variables))

\* time_vjps[::-1].
Reversed(s) == [j \in DOMAIN s |-> s[Len(s) + 1 - j]]

\* Line 156 adding the gradient of output index i instead of i - 1.
add_grad_output_M(adj_y, grad_output, i) ==
    [c \in 1..(IF Len(adj_y) < Len(grad_output) THEN Len(adj_y) ELSE Len(grad_output))
        |-> VAdd(adj_y[c], grad_output[c][i + 1])]

\* Line 156: adj_y_ + grad_output_[i - 1] over zip(adj_y, grad_output).
add_grad_output(adj_y, grad_output, i) ==
    [c \in 1..(IF Len(adj_y) < Len(grad_output) THEN Len(adj_y) ELSE Len(grad_output))
        |-> VAdd(adj_y[c], grad_output[c][i])]

\* Lines 160-161 without the reversal.
time_gradient_M(time_vjps, adj_time) == Flatten(Append(time_vjps, adj_time))

\* Lines 160-161: time_vjps.append(adj_time); tf.concat(time_vjps[::-1], 0).
time_gradient(time_vjps, adj_time) == Flatten(Reversed(Append(time_vjps, adj_time)))

\* The incoming gradients of a closure: one tensor per component and time
\* point.  odeint_adjoint hands its caller component 0 alone, so the loss
\* reaches the other components with gradient zero; the loss reads one output
\* index (as y[-1] of line 227 does) or sums them all.
GradOutputs(inv) ==
    LET T    == Len(inv.t)
        n    == Len(inv.ans)
        size == [c \in 1..n |-> Len(inv.ans[c][1])]
        pick(k) == [c \in 1..n |-> [j \in 1..T |->
                       IF c = 1 /\ (k = 0 \/ j = k) THEN [e \in 1..size[c] |-> 1]
                       ELSE Zeros(size[c])]]
    IN  {pick(k) : k \in 0..T}

\* grad is called: lines 46-106, up to the loop.
GradBegin ==
    /\ bk.pc \in {"awaiting", "done", "raised"}
    /\ \E inv \in invs :
         \E grad_output \in GradOutputs(inv) :
            LET variables == inv.variables
                T == Len(inv.ans[1])
            IN  IF variables = <<>>
                THEN bk' = [NoBackward EXCEPT !.pc = "raised", !.inv = <<inv>>,
                                              !.grad_output = grad_output]
                ELSE bk' = [pc |-> IF T > 1 THEN "segment" ELSE "unpack",
                            inv |-> <<inv>>,
                            args |-> arguments,
                            grad_output |-> grad_output,
                            i |-> T - 1,
                            adj_y |-> [c \in DOMAIN grad_output |-> grad_output[c][T]],
                            adj_time |-> <<0>>,
                            adj_params |-> Zeros(Len(Flatten(variables))),
                            time_vjps |-> <<>>,
                            solver_ts |-> <<>>,
                            unpacked |-> 0,
                            out |-> NoOutput]
    /\ fwd' = NoForward
    /\ UNCHANGED <<arguments, built, invs, en, zc, ds, disk, fs, fs0, clock, vlog>>

\* One iteration of the loop of lines 107-158, for i = bk.i.
GradSegment ==
    /\ bk.pc = "segment"
    /\ LET inv  == bk.inv[1]
           func == bk.args[1].func
           f_params == inv.variables
           n_tensors == Len(inv.ans)
           i    == bk.i
           t    == inv.t
           ans_i == AtTime(inv.ans, i)
           grad_output_i == AtTime(bk.grad_output, i)
           func_i == Call(func, t[i + 1], ans_i)
           dLd_cur_t == <<SumDots(func_i.out, grad_output_i)>>
           adj_time == VAdd(bk.adj_time, VNeg(dLd_cur_t))
           adj_params == IF Len(bk.adj_params) = 0 THEN <<0>> ELSE bk.adj_params
           aug_y0 == ans_i \o bk.adj_y \o <<adj_time, adj_params>>
           aug_ans == odeint(AugmentedOf(func, f_params, n_tensors), aug_y0, <<t[i + 1], t[i]>>)
           aug_1 == aug_ans.ys[2]
       IN  IF ~func_i.ok \/ ~aug_ans.ok
           THEN bk' = [bk EXCEPT !.pc = "raised"]
           ELSE bk' = [bk EXCEPT
                         !.pc = IF i - 1 >= 1 THEN "segment" ELSE "unpack",
                         !.i = i - 1,
                         !.adj_y = add_grad_output(SubSeq(aug_1, n_tensors + 1, 2 * n_tensors),
                                                   bk.grad_output, i),
                         !.adj_time = aug_1[2 * n_tensors + 1],
                         !.adj_params = aug_1[2 * n_tensors + 2],
                         !.time_vjps = Append(bk.time_vjps, dLd_cur_t),
                         !.solver_ts = Append(bk.solver_ts, <<t[i + 1], t[i]>>)]
    /\ UNCHANGED <<arguments, built, invs, fwd, en, zc, ds, disk, fs, fs0, clock, vlog>>

\* Lines 160-170: the time gradient is assembled, the parameter adjoint is
\* split into the variables' shapes, and grad returns.
GradUnpack ==
    /\ bk.pc = "unpack"
    /\ bk' = [bk EXCEPT
                !.pc = "done",
                !.unpacked = bk.unpacked + 1,
                !.out = [y0 |-> bk.adj_y,
                         t |-> time_gradient(bk.time_vjps, bk.adj_time),
                         params |-> SplitLike(bk.adj_params, bk.inv[1].variables)]]
    /\ UNCHANGED <<arguments, built, invs, fwd, en, zc, ds, disk, fs, fs0, clock, vlog>>

---------------------------------------------------------------------------
(* Specifications.                                                         *)

\* No odeint_adjoint call yet: _arguments is not defined.
AdjointInit ==
    /\ arguments = <<>>
    /\ built = {}
    /\ invs = {}
    /\ fwd = NoForward
    /\ bk = NoBackward

Init ==
    /\ AdjointInit
    /\ en = EnIdle
    /\ zc = ZcIdle
    /\ ds = DsIdle
    /\ disk = [f \in DatasetFiles |-> NoShape]
    /\ fs = [p \in Paths |-> NoFile]
    /\ fs0 = fs
    /\ clock = 0
    /\ vlog = <<>>

\* The run starts with each results log absent or left by an earlier run.
LogInit ==
    /\ AdjointInit
    /\ en = EnIdle
    /\ zc = ZcIdle
    /\ ds = DsIdle
    /\ disk = [f \in DatasetFiles |-> NoShape]
    /\ fs \in [Paths -> {NoFile, PriorLog}]
    /\ fs0 = fs
    /\ clock = 0
    /\ vlog = <<>>

LogNext == Visualize

LogSpec == LogInit /\ [][LogNext]_vars

Next == OdeintAdjoint \/ GradBegin \/ GradSegment \/ GradUnpack

Spec == Init /\ [][Next]_vars

EnergyNext == EnergyDrift \/ EnergyForget

EnergySpec == Init /\ [][EnergyNext]_vars

CrossNext == ZeroCrossings \/ ZcForget

CrossSpec == Init /\ [][CrossNext]_vars

DataNext == CreateDataset

DataSpec == Init /\ [][DataNext]_vars

---------------------------------------------------------------------------
(* Claims about relative_energy_drift (EnergySpec).                        *)

EnergyAtT == total_energy(PyIndex(en.x_true, en.t), 1, 1)

SameTrajectory == en.pc = "called" /\ en.x_pred = en.x_true

\* C7 as stated: relative_energy_drift(x, x, t) is exactly zero for every
\* trajectory x and every index t, whatever the state at index t is.
C7_DriftZeroAnyState == SameTrajectory => en.drift = Flt(0)

\* C7 as amended: relative_energy_drift(x, x, t) is exactly zero whenever the
\* total energy of x[t] is finite and nonzero; when that energy is zero (the
\* rest state) or not finite, the result is nan.
C7_DriftZeroNonzeroEnergy ==
    SameTrajectory =>
        IF IsFinite(EnergyAtT) /\ EnergyAtT # Flt(0)
        THEN en.drift = Flt(0)
        ELSE en.drift = NaN

\* A two-sample trajectory whose states differ, compared with itself at its
\* last index, where its energy is finite and nonzero.
C7_Witness ==
    /\ SameTrajectory
    /\ Len(en.x_true) = 2
    /\ en.x_true[1] # en.x_true[2]
    /\ en.t = -1
    /\ IsFinite(EnergyAtT) /\ EnergyAtT # Flt(0)
    /\ en.drift = Flt(0)

---------------------------------------------------------------------------
(* Claims about zero_crossings (CrossSpec).                                *)

\* The analytic zero crossings of the sinusoid inside [lo, hi], increasing.
RECURSIVE CrossingsIn(_, _)
CrossingsIn(lo, hi) ==
    IF lo > hi THEN <<>>
    ELSE (IF lo % HalfPeriod = 0 THEN <<lo>> ELSE <<>>) \o CrossingsIn(lo + 1, hi)

AnalyticCrossings ==
    CrossingsIn(SampleTime(zc.phase, zc.step, 0), SampleTime(zc.phase, zc.step, zc.n - 1))

Increasing(s) == \A j \in 1..(Len(s) - 1) : s[j] < s[j + 1]

\* Some sample other than the first and the last is exactly zero.
InteriorZeroSample == \E j \in 2..(zc.n - 1) : zc.x[j] = 0

OnePerCrossing ==
    /\ Len(zc.found) = Len(AnalyticCrossings)
    /\ Increasing(zc.found)
    /\ \A j \in 1..Len(zc.found) :
         j <= Len(AnalyticCrossings) =>
            Abs(SampleTime(zc.phase, zc.step, zc.found[j]) - AnalyticCrossings[j]) <= zc.step

\* C8 as stated: for every dense sampling of a sinusoid, whatever the phase
\* of the grid, zero_crossings returns exactly one index per analytic zero
\* crossing inside the sampled interval, in increasing order, each within
\* one sample interval of the crossing time.
C8_OneIndexPerCrossing == zc.pc = "called" => OnePerCrossing

\* What the code does guarantee: the same, for the samplings that put no
\* interior sample exactly on a zero; a sample exactly on a zero is reported
\* twice (the indices before and at the sample).
C8_OffGridOnly ==
    zc.pc = "called" =>
        IF InteriorZeroSample
        THEN Len(zc.found) > Len(AnalyticCrossings)
        ELSE OnePerCrossing

---------------------------------------------------------------------------
(* Claims about create_dataset (DataSpec).                                 *)

\* shape is [series, timestep, 2].
IsSeriesTimeTwo(shape) == Len(shape) = 3 /\ shape[3] = 2

SameSeriesAndSteps(a, b) == a[1] = b[1] /\ a[2] = b[2]

\* C6 as stated: each of x_train, y_train, x_val, y_val returned by
\* create_dataset is 3-D with shape [series, timestep, 2], and within each
\* split the input and target arrays agree on the number of series and on
\* the time-step count.
C6_ThreeDimensional ==
    ds.pc = "returned" =>
        /\ \A f \in DatasetFiles : IsSeriesTimeTwo(ds[f])
        /\ SameSeriesAndSteps(ds.x_train, ds.y_train)
        /\ SameSeriesAndSteps(ds.x_val, ds.y_val)

\* What the code does: the train arrays and x_val are as claimed, and y_val
\* is 4-D, [2, 1, timestep, 2].
C6_TrainAndInputsOnly ==
    ds.pc = "returned" =>
        /\ ds.x_train = <<ds.n_series, ds.samples, 2>>
        /\ ds.y_train = <<ds.n_series, ds.samples, 2>>
        /\ ds.x_val = <<2, ds.samples, 2>>
        /\ ds.y_val = <<2, 1, ds.samples, 2>>

---------------------------------------------------------------------------
(* Claims about the results log (LogSpec).                                 *)

\* The text of a token sequence.
RECURSIVE Text(_)
Text(tokens) == IF tokens = <<>> THEN "" ELSE Head(tokens) \o Text(Tail(tokens))

\* The comma-separated fields of a line (its final "\n" left out), each the
\* text between two commas.
RECURSIVE FieldsFrom(_, _)
FieldsFrom(tokens, cur) ==
    IF tokens = <<>> \/ Head(tokens) = "\n" THEN <<cur>>
    ELSE IF Head(tokens) = "," THEN <<cur>> \o FieldsFrom(Tail(tokens), "")
    ELSE FieldsFrom(Tail(tokens), cur \o Head(tokens))

Fields(line) == FieldsFrom(line, "")

\* The calls of the history that resolved to path p, in call order.
CallsTo(p) == SelectSeq(vlog, LAMBDA c : c.path = p)

RowOf(c) == row_string(c.wall_time, c.epoch, c.metrics)

RowsOf(calls) == [j \in DOMAIN calls |-> RowOf(calls[j])]

HeaderCount(p) == Cardinality({j \in DOMAIN fs[p].chunks : fs[p].chunks[j] = title_string})

\* C2: N visualize calls that resolve to one results-log path leave, after
\* what the file held before, exactly N data rows in call order; the header
\* is written only by a call that finds the file absent, never when the file
\* exists from a prior run, so an existing log holds it exactly once; no
\* earlier line is removed or rewritten.
C2_RowsAppendedHeaderOnce ==
    \A p \in Paths :
        LET calls == CallsTo(p)
        IN  /\ fs[p].exists = (fs0[p].exists \/ calls # <<>>)
            /\ fs[p].chunks =
                   fs0[p].chunks
                   \o (IF ~fs0[p].exists /\ calls # <<>> THEN <<title_string>> ELSE <<>>)
                   \o RowsOf(calls)
            /\ fs[p].exists => HeaderCount(p) = 1

\* Two calls on a path that was absent and one on a path left by a prior run.
C2_Witness ==
    \E p \in Paths, q \in Paths :
        /\ ~fs0[p].exists /\ Len(CallsTo(p)) = 2
        /\ fs0[q].exists /\ Len(CallsTo(q)) = 1
        /\ Len(fs[p].chunks) = 3 /\ Len(fs[q].chunks) = 3

HeaderNames ==
    <<"wall_time", "epoch", "energy_drift_interp", "energy_drift_extrap",
      "phase_error_interp", "phase_error_extrap", "traj_err_interp", "traj_err_extrap">>

\* The values of a call in the column order of HeaderNames.
ColumnValues(c) ==
    <<FloatStr(c.wall_time), IntStr(c.epoch),
      FloatStr(c.metrics.energy_drift_interp), FloatStr(c.metrics.energy_drift_extrap),
      FloatStr(c.metrics.phase_error_interp), FloatStr(c.metrics.phase_error_extrap),
      FloatStr(c.metrics.traj_error_interp), FloatStr(c.metrics.traj_error_extrap)>>

\* The files this run created.
CreatedLogs == {p \in Paths : ~fs0[p].exists /\ fs[p].exists}

RowsWellFormed(p) ==
    \A j \in 2..Len(fs[p].chunks) :
        /\ Len(Fields(fs[p].chunks[j])) = Len(HeaderNames)
        /\ Fields(fs[p].chunks[j]) = ColumnValues(CallsTo(p)[j - 1])

\* C3 as stated: the header row of a newly created results log is exactly
\* wall_time,epoch,energy_drift_interp,energy_drift_extrap,phase_error_interp,
\* phase_error_extrap,traj_err_interp,traj_err_extrap (no other characters),
\* and every data row has as many comma-separated fields, in that column order.
C3_HeaderExact ==
    \A p \in CreatedLogs :
        /\ Text(fs[p].chunks[1]) =
              "wall_time,epoch,energy_drift_interp,energy_drift_extrap,phase_error_interp,"
              \o "phase_error_extrap,traj_err_interp,traj_err_extrap" \o "\n"
        /\ Fields(fs[p].chunks[1]) = HeaderNames
        /\ RowsWellFormed(p)

\* What the code does: the header has the eight names in that order, three
\* of them with a space in front, and the data rows are as claimed.
C3_HeaderWithSpaces ==
    \A p \in CreatedLogs :
        /\ Text(fs[p].chunks[1]) =
              "wall_time,epoch,energy_drift_interp,energy_drift_extrap, phase_error_interp,"
              \o "phase_error_extrap, traj_err_interp, traj_err_extrap\n"
        /\ Len(Fields(fs[p].chunks[1])) = Len(HeaderNames)
        /\ RowsWellFormed(p)

---------------------------------------------------------------------------
(* Claims about odeint_adjoint and the backward pass (Spec).               *)

\* The invocation whose gradient is being computed, and what grad read.
BkInv == bk.inv[1]

BkFunc == bk.args[1].func

BkT == Len(BkInv.t)

\* C1 as stated: the gradient computation of an invocation reads from the
\* _arguments slot the integration arguments (func, method, options, rtol,
\* atol) that the forward pass of that same invocation used.
C1_GradReadsOwnArguments ==
    bk.args # <<>> => bk.args[1] = BkInv.args

\* C4: odeint_adjoint raises ValueError exactly when func is no
\* tf.keras.Model, and then it has evaluated func zero times, called the
\* solver zero times, returned nothing and left the _arguments slot with the
\* value it had before the call.
C4_NonModelRaisesFirst ==
    fwd.outcome # "none" =>
        /\ (fwd.outcome = "ValueError") = ~IsKerasModel(fwd.func)
        /\ fwd.outcome = "ValueError" =>
              /\ arguments = fwd.slot_before
              /\ fwd.func_evals = 0
              /\ fwd.solver_calls = 0
              /\ fwd.ys = <<>>

\* A call with a plain function raised while the slot held the arguments of
\* an earlier call.
C4_Witness ==
    /\ fwd.outcome = "ValueError"
    /\ fwd.slot_before # <<>>
    /\ arguments = fwd.slot_before

\* The adjoint-of-state after the backward integration of segment
\* [t_i, t_{i-1}] that starts from adjoint a (the solver's step is linear in a).
BackStep(i, a) ==
    LET t == BkInv.t
        v == VJP(BkFunc, t[i + 1], AtTime(BkInv.ans, i),
                 [c \in DOMAIN a |-> VNeg(a[c])], BkInv.variables)
    IN  TupAdd(a, TupScale(t[i] - t[i + 1], v.y))

\* Adjoint a at output index k carried back to output index i <= k.
RECURSIVE Propagated(_, _, _)
Propagated(a, k, i) == IF k <= i THEN a ELSE Propagated(BackStep(k, a), k - 1, i)

\* The incoming gradients of output indices i..k, each carried back to i once.
RECURSIVE Superposed(_, _)
Superposed(k, i) ==
    IF k = i THEN AtTime(bk.grad_output, i)
    ELSE TupAdd(Propagated(AtTime(bk.grad_output, k), k, i), Superposed(k - 1, i))

\* func(t_k, y_k) . grad_output[k], summed over the state's tensors.
DotAt(k) ==
    SumDots(Call(BkFunc, BkInv.t[k + 1], AtTime(BkInv.ans, k)).out,
            AtTime(bk.grad_output, k))

\* What the time-adjoint gains over segment [t_i, t_{i-1}].
TimeGain(i) ==
    LET t == BkInv.t
        a == Superposed(BkT - 1, i)
        v == VJP(BkFunc, t[i + 1], AtTime(BkInv.ans, i),
                 [c \in DOMAIN a |-> VNeg(a[c])], BkInv.variables)
    IN  (t[i] - t[i + 1]) * v.t[1] - DotAt(i)

RECURSIVE TimeAdjoint(_)
TimeAdjoint(i) == IF i = 0 THEN 0 ELSE TimeGain(i) + TimeAdjoint(i - 1)

\* C5: the time gradient the backward pass returns has T entries in forward
\* chronological order: entry k, for k in 1..T-1, is the dot product of
\* func(t_k, y_k) with the incoming gradient at output index k, and entry 0
\* is the time-adjoint at t_0, from which each of those dot products has been
\* subtracted and which every segment's integration has carried along.
C5_TimeGradientChronological ==
    bk.pc = "done" =>
        /\ Len(bk.out.t) = BkT
        /\ \A k \in 1..(BkT - 1) : bk.out.t[k + 1] = DotAt(k)
        /\ bk.out.t[1] = TimeAdjoint(BkT - 1)

\* A pass over three time points of a field that depends on t returned a
\* time gradient whose entries all differ.
C5_Witness ==
    /\ bk.pc = "done"
    /\ BkT = 3
    /\ ~BkFunc.wrapped
    /\ bk.out.t[1] # bk.out.t[2] /\ bk.out.t[2] # bk.out.t[3] /\ bk.out.t[1] # bk.out.t[3]

\* The backward solver calls of a pass over T time points: [t_i, t_{i-1}] for
\* i = T-1 down to 1.
SegmentCalls(t) == [j \in 1..(Len(t) - 1) |-> <<t[Len(t) - j + 1], t[Len(t) - j]>>]

\* What the pass has done so far is a prefix of the schedule, the loop index
\* says how long a prefix, and the parameters are unpacked once, at the end.
OnSchedule ==
    /\ bk.solver_ts = SubSeq(SegmentCalls(BkInv.t), 1, Len(bk.solver_ts))
    /\ bk.pc \in {"segment", "unpack", "done"} => Len(bk.solver_ts) = BkT - 1 - bk.i
    /\ bk.pc = "segment" => bk.i >= 1 /\ bk.unpacked = 0
    /\ bk.pc = "unpack" => bk.i = 0 /\ bk.unpacked = 0
    /\ bk.pc = "done" =>
          /\ bk.i = 0 /\ bk.unpacked = 1
          /\ Len(bk.out.y0) = Len(BkInv.ans)
          /\ Len(bk.out.t) = BkT
          /\ Len(bk.out.params) = Len(BkInv.variables)

\* C9 as stated: for T >= 2 the backward pass goes awaiting gradient ->
\* per-segment backward integration -> parameter unpacking -> done, without
\* raising: T-1 solver calls on the augmented system, one per segment, for
\* i = T-1 down to 1, each on the two time points [t_i, t_{i-1}], then one
\* unpacking, then it emits (initial-state-grad, time-grad, parameter-grads).
C9_SegmentsUnpackDone ==
    bk.inv # <<>> /\ BkT >= 2 =>
        /\ bk.pc # "raised"
        /\ OnSchedule

\* What the code does for T >= 2: a pass that does not raise follows the
\* schedule of C9.
C9_ScheduleUnlessRaised ==
    bk.inv # <<>> /\ BkT >= 2 /\ bk.pc # "raised" => OnSchedule

\* C10: the adjoint-of-state starts as the incoming gradient at output index
\* T-1, and after the integration of segment [t_i, t_{i-1}] the incoming
\* gradient at index i-1 is added to it; so when the loop stands at output
\* index i the adjoint is the sum of the incoming gradients of indices
\* i..T-1, each carried back to index i, every one of them entered exactly
\* once; at the end that holds for all of 0..T-1, for a state of one tensor
\* and for a tuple of tensors.
C10_EachGradientEntersOnce ==
    bk.pc \in {"segment", "unpack", "done"} =>
        /\ Len(bk.adj_y) = Len(bk.grad_output)
        /\ bk.adj_y = Superposed(BkT - 1, bk.i)
        /\ bk.pc = "done" => bk.out.y0 = Superposed(BkT - 1, 0)

\* A pass on a 2-tuple state over three time points ended, the incoming
\* gradient being nonzero at the middle output index alone.
C10_Witness ==
    /\ bk.pc = "done"
    /\ BkT = 3
    /\ Len(bk.adj_y) = 2
    /\ bk.grad_output[1] = << <<0>>, <<1>>, <<0>> >>
    /\ bk.out.y0 # AtTime(bk.grad_output, 0)

\* The func of the invocation under gradient has no trainable variable.
NoTrainableVariables == BkInv.args.func.base.vars = <<>>

\* C11 as stated: when func has zero trainable parameters the backward pass
\* completes without error; the parameter adjoint carried through the
\* segments is the scalar zero placeholder, not an empty structure, and the
\* pass emits the initial-state gradient, the time gradient and an empty list
\* of parameter gradients.
C11_ZeroParametersCompletes ==
    bk.inv # <<>> /\ NoTrainableVariables =>
        /\ bk.pc # "raised"
        /\ bk.pc = "segment" /\ bk.solver_ts # <<>> => bk.adj_params = <<0>>
        /\ bk.pc = "done" =>
              /\ Len(bk.out.y0) = Len(BkInv.ans)
              /\ Len(bk.out.t) = BkT
              /\ bk.out.params = <<>>

\* What the code does: no backward pass of a func without trainable
\* variables gets past its first statements, whatever the number of time
\* points; it makes no solver call and emits nothing.
C11_ZeroParametersRaise ==
    bk.inv # <<>> /\ NoTrainableVariables =>
        /\ bk.pc = "raised"
        /\ bk.solver_ts = <<>>
        /\ bk.out = NoOutput

\* C12 as stated: odeint_adjoint returns its result in the structure of the
\* initial state it was given: for a single tensor y0 the one trajectory of
\* states at the requested times, for a tuple y0 of n tensors all n component
\* trajectories, none dropped.
C12_ResultHasStructureOfY0 ==
    fwd.outcome = "returned" =>
        IF fwd.tensor_input
        THEN fwd.ys = fwd.ans[1]
        ELSE Len(fwd.ys) = Len(fwd.ans) /\ fwd.ys = fwd.ans

\* What the code does: the first component's trajectory alone, for a tensor
\* and for a tuple.
C12_FirstComponentOnly ==
    fwd.outcome = "returned" => fwd.ys = fwd.ans[1]

===========================================================================
